---------------------------- MODULE Spec2Model ----------------------------
(***************************************************************************)
(* The authentication and token-revocation core of the agentic-ai API:     *)
(* app/middleware/auth.py (password hashing, token issue, authentication), *)
(* app/routes/auth.py (register, login, logout) and the authentication     *)
(* gate of app/routes/agents.py, over one shared Redis store.              *)
(*                                                                         *)
(* Time.  The clock `now` counts ticks of 1/TicksPerSecond second.  Redis  *)
(* keeps expiry instants at millisecond resolution, so a key written by    *)
(* SETEX at tick w with a TTL of s seconds lives until tick                *)
(* w + s*TicksPerSecond.  python-jose keeps whole seconds: jwt.encode      *)
(* turns the datetime `exp` into timegm(exp.utctimetuple()), which drops   *)
(* the fraction, and jwt.decode raises ExpiredSignatureError only when     *)
(* exp < timegm(utcnow().utctimetuple()), so a token is still decoded      *)
(* during the whole second numbered exp.                                   *)
(*                                                                         *)
(* Requests.  Every request is handled by one of the workers in Procs; a   *)
(* handler is cut into steps at its Redis round trips, and steps of        *)
(* different workers interleave.                                           *)
(***************************************************************************)
EXTENDS Integers, Sequences, FiniteSets, TLC

\* ------------------------------------------------------------- bounds ----
MaxTick == 4            \* the clock stops here
TicksPerSecond == 2     \* clock resolution
SecondsPerMinute == 1   \* scale of a configured minute (60 in the source: both
                        \* timedelta(minutes=..) and `* 60` use the same factor)
MaxMinutes == 1         \* ACCESS_TOKEN_EXPIRE_MINUTES is drawn from 0..MaxMinutes
MaxRequests == 3        \* requests served in one run
MaxChunks == 3          \* chunks the agent produces for one query
MaxToday == 2           \* today is one of the days 1..MaxToday after 2010-01-01

\* ---------------------------------------------------- program constants ---
DefaultExpireMinutes == 15   \* create_access_token: timedelta(minutes=15)

Procs == {"w1", "w2"}
Emails == {"alice", "bob"}
Passwords == {"pw1", "pw2"}
Salts == {1, 2}
AgentTypes == {"ollama", "other"}
Queries == {"Hi"}
SUPPORTED_AGENTS == {"ollama"}
\* os.getenv("REDIS_SECRET_KEY"): the variable's value, or None when it is unset
KeyInEnv == "REDIS_SECRET_KEY"
None == "None"
ALGORITHM == "HS256"

VARIABLES
    SECRET_KEY,                   \* app/config.py, read once from the environment
    ACCESS_TOKEN_EXPIRE_MINUTES,  \* app/config.py, read once from the environment
    now,                          \* the wall clock, in ticks
    redis_client,                 \* the Redis store: key -> [value, expireAt]
    procs,                        \* per worker: the request it is handling
    reply,                        \* the last response sent, with its request
    served,                       \* requests accepted so far
    issued,                       \* tokens returned by a successful login
    loggedOut,                    \* tokens for which a logout returned 200
    revokedAt,                    \* <<token, instant>> of every SETEX of a logout
    registered,                   \* <<email, password>> of every 201 register
    regCount,                     \* per email, how many registers returned 201
    sse,                          \* a run of generate_sse_events
    weather                       \* a call of get_weather_by_city

\* the agent's side: the event stream and the weather tool
agentVars == <<sse, weather>>

\* the service's side: configuration, clock, store, requests and their history
serviceVars == <<SECRET_KEY, ACCESS_TOKEN_EXPIRE_MINUTES, now, redis_client, procs,
                 reply, served, issued, loggedOut, revokedAt, registered, regCount>>

vars == <<serviceVars, agentVars>>

\* ------------------------------------------------------------- values ----
NullToken == [sub |-> "", exp |-> 0, sig |-> "none"]
NullHash == [scheme |-> "", salt |-> 0, digest |-> <<0, "">>]
NullUser == [email |-> "", password |-> NullHash]
Nil == [str |-> "", json |-> NullUser]          \* redis GET of an absent key: None
NoExpiry == -1                                  \* a key written by SET

\* A token string that no login issued: its signature is not SECRET_KEY's.
\* SECRET_KEY is known to the service alone and create_access_token is called
\* by login alone, so the strings that carry SECRET_KEY's signature are the
\* tokens login has issued.
GarbageToken == [sub |-> "alice", exp |-> MaxTick + DefaultExpireMinutes,
                 sig |-> "forged"]

Presentable == issued \cup {GarbageToken}

\* what a request to a protected route carries: a token string, or no
\* Authorization header at all (NullToken)
Credentials == Presentable \cup {NullToken}

\* f"user:{email}" and f"blacklist:{token}"
UserKey(email) == [ns |-> "user", email |-> email, token |-> NullToken]
BlacklistKey(token) == [ns |-> "blacklist", email |-> "", token |-> token]

\* json.dumps / json.loads of the user dict
JsonDumps(d) == [str |-> "json", json |-> d]
JsonLoads(s) == s.json
\* Python truthiness of what redis GET returns (None or a non-empty string)
Truthy(v) == v.str # ""

\* ---------------------------------------------------------- the clock ----
NowSeconds(clk) == clk \div TicksPerSecond      \* timegm(utctimetuple()): whole seconds
Timedelta(minutes) == minutes * SecondsPerMinute     \* timedelta(minutes=..), in seconds

\* ---------------------------------------------------------- the store ----
Live(entry, clk) == entry.expireAt = NoExpiry \/ clk <= entry.expireAt

RedisGet(db, key, clk) ==
    IF key \in DOMAIN db /\ Live(db[key], clk) THEN db[key].value ELSE Nil

\* mutant: a write that replaces the store's content
RedisPut_only(db, key, entry) == [k \in {key} |-> entry]

\* SET and SETEX: the key gets the entry, every other key stays
RedisPut(db, key, entry) ==
    [k \in DOMAIN db \cup {key} |-> IF k = key THEN entry ELSE db[k]]

RedisSet(db, key, value) == RedisPut(db, key, [value |-> value, expireAt |-> NoExpiry])

\* SETEX rejects a TTL <= 0 ("invalid expire time"): redis-py raises ResponseError
SetexRaises(seconds) == seconds <= 0

RedisSetex(db, key, seconds, value, clk) ==
    RedisPut(db, key, [value |-> value, expireAt |-> clk + seconds * TicksPerSecond])

\* the store drops the keys whose expiry instant has passed
Purge(db, clk) == [k \in {x \in DOMAIN db : Live(db[x], clk)} |-> db[k]]

\* ------------------------------------------------- app/middleware/auth.py -
\* Two passwords of more than 72 bytes that agree on their first 72 bytes.
LongPasswords == {"long72+a", "long72+b"}

\* bcrypt reads the first 72 bytes of the password and no more; passlib's
\* bcrypt handler passes longer passwords on as they are (truncate_error is
\* off unless configured, and pwd_context configures nothing)
Bcrypt72(password) == IF password \in LongPasswords THEN "long72" ELSE password

\* pwd_context.hash: bcrypt, a fresh random salt per call, the salt kept in the hash
hash_password(password, salt) ==
    [scheme |-> "bcrypt", salt |-> salt, digest |-> <<salt, Bcrypt72(password)>>]

\* mutant: every password verifies
verify_password_any(plain_password, hashed_password) == TRUE

\* pwd_context.verify on a string that is no bcrypt hash: CryptContext cannot
\* identify it and raises passlib.exc.UnknownHashError (a ValueError)
VerifyRaises(hashed_password) == hashed_password.scheme # "bcrypt"

\* pwd_context.verify: recompute with the salt embedded in the hash and compare
verify_password(plain_password, hashed_password) ==
    /\ hashed_password.scheme = "bcrypt"
    /\ hashed_password.digest = <<hashed_password.salt, Bcrypt72(plain_password)>>

\* jwt.encode with key None: jwk.construct rejects a key that is neither a
\* string nor bytes, and jws.sign raises JWSError
JwtEncodeRaises(key) == key = None

\* jwt.encode: datetime claims become whole seconds; the signature binds the key
JwtEncode(claims, key) ==
    [sub |-> claims.sub, exp |-> NowSeconds(claims.exp), sig |-> key]

\* mutant: `+` for `or`, so a token outlives the lifetime login asked for
EffectiveDelta_plus(expires_delta) == expires_delta + Timedelta(DefaultExpireMinutes)

\* `expires_delta or timedelta(minutes=15)`: a zero timedelta is falsy
EffectiveDelta(expires_delta) ==
    IF expires_delta # 0 THEN expires_delta ELSE Timedelta(DefaultExpireMinutes)

\* expire = datetime.now(utc) + delta, as a tick; then jwt.encode
create_access_token(sub, expires_delta, clk) ==
    JwtEncode([sub |-> sub,
               exp |-> clk + EffectiveDelta(expires_delta) * TicksPerSecond],
              SECRET_KEY)

\* mutant: the signature is not verified
JwtDecodeRaises_unverified(token, key, clk) == token.exp < NowSeconds(clk)

\* jwt.decode raises JWTError on a bad signature or a malformed token, and
\* ExpiredSignatureError (a JWTError) when exp < the current whole second
JwtDecodeRaises(token, key, clk) ==
    \/ token.sig # key
    \/ token.exp < NowSeconds(clk)

\* get_current_user, line 45: the blacklist lookup
IsBlacklisted(db, token, clk) == Truthy(RedisGet(db, BlacklistKey(token), clk))

Unauthorized == "<401>"

\* mutant: the subject is returned as it is
DecodeUser_unchecked(token, clk) ==
    IF JwtDecodeRaises(token, SECRET_KEY, clk) THEN Unauthorized ELSE token.sub

\* get_current_user, lines 48-56: decode, then payload.get("sub") if it is
\* truthy (None when the payload has no "sub", and "" are not)
DecodeUser(token, clk) ==
    IF JwtDecodeRaises(token, SECRET_KEY, clk) THEN Unauthorized
    ELSE IF token.sub \notin {"", None} THEN token.sub
    ELSE Unauthorized

\* get_current_user as one call at one instant
get_current_user(token, db, clk) ==
    IF IsBlacklisted(db, token, clk) THEN Unauthorized ELSE DecodeUser(token, clk)

\* ------------------------------------------------------------ responses --
Resp(status, detail) == [status |-> status, detail |-> detail, token |-> NullToken,
                         token_type |-> ""]
NoResp == Resp(0, "")
CredentialsException == Resp(401, "Invalid or expired token")
\* HTTPBearer() with auto_error: no Authorization header, or not a Bearer one
NotAuthenticated == Resp(403, "Not authenticated")
AlreadyRegistered == Resp(400, "Email already registered")
RegisterOk == Resp(201, "User registered successfully")
\* mutant: an unknown email is told apart
UserNotFoundResponse_404 == Resp(404, "User not found")
UserNotFoundResponse == Resp(401, "Invalid email or password")
InvalidPasswordResponse == Resp(401, "Invalid email or password")
LoginOk(token) == [status |-> 200, detail |-> "User logged in successfully",
                   token |-> token, token_type |-> "bearer"]
LogoutOk == Resp(200, "Successfully logged out")
InvalidAgent == Resp(400, "Invalid agent type")
StreamingOk == Resp(200, "text/event-stream")
\* global_exception_handler, lines 28-38: any exception no route handles is
\* logged ("Unhandled exception: ..."), and then the handler raises
\* HTTPException(500, "Internal server error") where a handler has to return
\* its response.  The handler registered for Exception is run by Starlette's
\* ServerErrorMiddleware inside its except block, which catches nothing the
\* handler raises: the HTTPException leaves the application and the ASGI
\* server answers with its own plain 500 page.
InternalError == Resp(500, "Internal Server Error")

\* -------------------------------------------------------------- workers --
\* A worker is free (pc = "done") or in the middle of a request.
\* `generated` lists the calls of generate_sse_events made for the request.
Idle == [op |-> "none", pc |-> "done", email |-> "", password |-> "",
         token |-> NullToken, agent_type |-> "", query |-> "", current_user |-> "",
         hadRecord |-> FALSE, generated |-> << >>]

Free(p) == procs[p].pc = "done"

\* worker p takes a new request
Accept(p) == Free(p) /\ served < MaxRequests /\ served' = served + 1

Request(op, pc) == [Idle EXCEPT !.op = op, !.pc = pc]

\* the response to request r, and the line r's handler logged last
Reply(r, resp, log) ==
    [op |-> r.op, email |-> r.email, password |-> r.password, token |-> r.token,
     agent_type |-> r.agent_type, query |-> r.query,
     current_user |-> r.current_user, hadRecord |-> r.hadRecord,
     generated |-> r.generated, resp |-> resp, log |-> log]

NoReply == Reply(Idle, NoResp, "")

\* worker p answers request r and is free again
Finish(p, r, resp, log) ==
    /\ procs' = [procs EXCEPT ![p] = Idle]
    /\ reply' = Reply(r, resp, log)

\* The service starts on an empty store, or on one in which an earlier run
\* registered a user (the store outlives the service).
StoredUser(email, password, salt) ==
    RedisSet(<< >>, UserKey(email),
             JsonDumps([email |-> email, password |-> hash_password(password, salt)]))

EmptyStore ==
    /\ redis_client = << >>
    /\ registered = {}
    /\ regCount = [e \in Emails |-> 0]

AliceStored ==
    /\ redis_client = StoredUser("alice", "pw1", 1)
    /\ registered = {<<"alice", "pw1">>}
    /\ regCount = [e \in Emails |-> IF e = "alice" THEN 1 ELSE 0]

\* ------------------------------------------------------ the event stream --
\* What stream_ollama_agent_response yields: {"event": "message", "data":
\* <non-empty content>, "metadata": ...}, content being a piece of the answer.
ChunkData == {"Hel", "lo"}
ChunkMetadata == {"{}", "{langgraph_node}"}
AgentChunks == [event : {"message"}, data : ChunkData, metadata : ChunkMetadata]

\* the finite sequences of chunks the agent may produce for one query
RECURSIVE SeqsUpTo(_, _)
SeqsUpTo(S, n) ==
    IF n = 0 THEN {<< >>}
    ELSE LET shorter == SeqsUpTo(S, n - 1)
         IN shorter \cup {Append(s, x) : s \in {t \in shorter : Len(t) = n - 1},
                                         x \in S}

ChunkStreams == SeqsUpTo(AgentChunks, MaxChunks)

\* f"data: {json.dumps({...})}\n\n": one SSE event, a data line and a blank line
SseData(event, data) == [field |-> "data", event |-> event, data |-> data,
                         end |-> "\n\n"]

\* sse.py, lines 16-23: the event of a chunk carries its event and data, not
\* its metadata
SseEvent(chunk) == SseData(chunk.event, chunk.data)

\* sse.py, line 27
DoneEvent == SseData("done", "")

\* mutant: the agent is streamed whatever the agent type
StreamsAgent_any(agent_type) == TRUE

\* sse.py, line 14
StreamsAgent(agent_type) == agent_type = "ollama"

\* no generator is running
SseIdle == [pc |-> "idle", query |-> "", agent_type |-> "", chunks |-> << >>,
            event_count |-> 0, out |-> << >>]

\* generate_sse_events(query, agent_type) is started; `chunks` is what the
\* agent produces for the query, `out` what the generator has yielded
generate_sse_events(query, agent_type, chunks) ==
    /\ sse.pc \in {"idle", "closed"}
    /\ sse' = [pc |-> IF StreamsAgent(agent_type) THEN "loop" ELSE "done",
               query |-> query, agent_type |-> agent_type, chunks |-> chunks,
               event_count |-> 0, out |-> << >>]
    /\ UNCHANGED <<serviceVars, weather>>

\* sse.py, lines 15-23: the next chunk of the agent is turned into an event
sse_yield ==
    /\ sse.pc = "loop"
    /\ sse.event_count < Len(sse.chunks)
    /\ sse' = [sse EXCEPT !.event_count = @ + 1,
                          !.out = Append(@, SseEvent(sse.chunks[sse.event_count + 1]))]
    /\ UNCHANGED <<serviceVars, weather>>

\* sse.py, lines 25-27: the agent's stream has ended, or was never started
sse_done ==
    /\ \/ sse.pc = "loop" /\ sse.event_count = Len(sse.chunks)
       \/ sse.pc = "done"
    /\ sse' = [sse EXCEPT !.pc = "closed", !.out = Append(@, DoneEvent)]
    /\ UNCHANGED <<serviceVars, weather>>

\* ------------------------------------------------------ the weather tool --
\* Dates are day numbers counted from 2010-01-01 (day 0).
MinDate == 0
ForecastDays == 14
Todays == 1..MaxToday
Days == (MinDate - 2)..(MaxToday + ForecastDays + 2)

\* os.getenv("WEATHER_API_KEY"): a key, an empty value, or None when unset
WeatherKeys == {"wkey", "", None}

\* The `date` argument: None, or a string.  A string is modelled by its form
\* and the day it names: "YYYY-MM-DD" is the zero-padded form ("2024-06-05"),
\* "YYYY-M-D" names the day with a month or day of one digit ("2024-6-5"),
\* "DD-MM-YYYY" is any text that is no year-month-day triple ("15-06-2024").
DateForms == {"YYYY-MM-DD", "YYYY-M-D", "DD-MM-YYYY"}
NoDate == [form |-> "None", day |-> MinDate]
DateArgs == [form : DateForms, day : Days] \cup {NoDate}

\* datetime.strptime(date, "%Y-%m-%d") raises ValueError; %m and %d take one
\* digit or two, %Y takes four
StrptimeRaises(date) == date.form \notin {"YYYY-MM-DD", "YYYY-M-D"}

\* datetime.strptime(date, "%Y-%m-%d").date()
Strptime(date) == date.day

ErrNoKey == "Error: Weather API key not configured"
ErrDateFormat == "Error: Invalid date format. Please use YYYY-MM-DD format."
ErrBeforeMinDate == "Error: Historical data only available from 2010-01-01 onwards."
ErrBeyondForecast == "Error: Forecast only available up to 14 days ahead."
WeatherErrors == {ErrNoKey, ErrDateFormat, ErrBeforeMinDate, ErrBeyondForecast}

\* get_weather_by_city, lines 66-79
ForecastEndpoint(days_diff) ==
    IF days_diff <= ForecastDays THEN "forecast.json" ELSE ErrBeyondForecast

\* get_weather_by_city, lines 25-79: the endpoint to call, or the error returned
WeatherEndpoint(key, today, date) ==
    IF key \in {"", None} THEN ErrNoKey
    ELSE IF date = NoDate THEN "current.json"
    ELSE IF StrptimeRaises(date) THEN ErrDateFormat
    ELSE LET target_date == Strptime(date)
             days_diff == target_date - today
         IN IF days_diff < 0
            THEN IF target_date < MinDate THEN ErrBeforeMinDate ELSE "history.json"
            ELSE IF days_diff = 0 THEN "current.json"
            ELSE ForecastEndpoint(days_diff)

WeatherIdle == [pc |-> "idle", key |-> None, today |-> 0, date |-> NoDate,
                calls |-> << >>, result |-> ""]

\* get_weather_by_city up to its httpx.get (line 89), or to the return of an
\* error string; `calls` lists the endpoints requested
get_weather_by_city(key, today, date) ==
    /\ weather.pc \in {"idle", "returned"}
    /\ LET endpoint == WeatherEndpoint(key, today, date)
       IN weather' = IF endpoint \in WeatherErrors
                     THEN [pc |-> "returned", key |-> key, today |-> today,
                           date |-> date, calls |-> << >>, result |-> endpoint]
                     ELSE [pc |-> "http", key |-> key, today |-> today,
                           date |-> date, calls |-> <<endpoint>>, result |-> ""]
    /\ UNCHANGED <<serviceVars, sse>>

\* lines 91-123: the weather service answers 200 with the data, answers with
\* another status, or cannot be reached
HttpOutcomes == {"weather", "Error: Could not fetch weather",
                 "Error: Could not connect to weather service"}

weather_response(outcome) ==
    /\ weather.pc = "http"
    /\ weather' = [weather EXCEPT !.pc = "returned", !.result = outcome]
    /\ UNCHANGED <<serviceVars, sse>>

\* the service has been imported: the lifetime is configured, nothing served yet
Boot ==
    /\ ACCESS_TOKEN_EXPIRE_MINUTES \in 0..MaxMinutes
    /\ now = 0
    /\ procs = [p \in Procs |-> Idle]
    /\ reply = NoReply
    /\ served = 0
    /\ issued = {}
    /\ loggedOut = {}
    /\ revokedAt = {}
    /\ sse = SseIdle
    /\ weather = WeatherIdle

\* the deployment as intended: REDIS_SECRET_KEY is set, the store holds what
\* this service wrote
Init ==
    /\ SECRET_KEY = KeyInEnv
    /\ Boot
    /\ EmptyStore \/ AliceStored

\* time passes; the store purges what has expired
Tick ==
    /\ now < MaxTick
    /\ now' = now + 1
    /\ redis_client' = Purge(redis_client, now + 1)
    /\ UNCHANGED <<agentVars, SECRET_KEY,
                   ACCESS_TOKEN_EXPIRE_MINUTES, procs, reply,
                   served, issued, loggedOut, revokedAt, registered, regCount>>

\* ------------------------------------------------- app/routes/auth.py ----
\* mutant: the existence check is dropped
EmailTaken_never(db, email, clk) == FALSE

\* register, line 30: `if redis_client.get(f"user:{user.email}")`
EmailTaken(db, email, clk) == Truthy(RedisGet(db, UserKey(email), clk))

\* register, lines 26-34: the request arrives and the store is asked for the email
register(p, email, password) ==
    /\ Accept(p)
    /\ LET r == [Request("register", "reg_set") EXCEPT
                    !.email = email, !.password = password,
                    !.hadRecord = UserKey(email) \in DOMAIN redis_client]
       IN IF EmailTaken(redis_client, email, now)
          THEN Finish(p, r, AlreadyRegistered,
                      "Registration failed - email already exists")
          ELSE procs' = [procs EXCEPT ![p] = r] /\ UNCHANGED reply
    /\ UNCHANGED <<agentVars, SECRET_KEY,
                   ACCESS_TOKEN_EXPIRE_MINUTES, now, redis_client,
                   issued, loggedOut, revokedAt, registered, regCount>>

\* register, lines 36-41: hash the password, SET the record, answer 201
register_set(p) ==
    /\ procs[p].pc = "reg_set"
    /\ \E salt \in Salts :
          LET user_data == [email |-> procs[p].email,
                            password |-> hash_password(procs[p].password, salt)]
          IN redis_client' = RedisSet(redis_client, UserKey(procs[p].email),
                                      JsonDumps(user_data))
    /\ Finish(p, procs[p], RegisterOk, "User registered successfully")
    /\ registered' = registered \cup {<<procs[p].email, procs[p].password>>}
    /\ regCount' = [regCount EXCEPT ![procs[p].email] = @ + 1]
    /\ UNCHANGED <<agentVars, SECRET_KEY,
                   ACCESS_TOKEN_EXPIRE_MINUTES, now, served,
                   issued, loggedOut, revokedAt>>

\* login, lines 49-75, as a response and a log line
LoginResult(email, password, db, clk, minutes) ==
    LET user_data == RedisGet(db, UserKey(email), clk)
    IN IF ~Truthy(user_data)
       THEN [resp |-> UserNotFoundResponse, log |-> "Login failed - user not found"]
       ELSE IF VerifyRaises(JsonLoads(user_data).password)
       THEN [resp |-> InternalError, log |-> "Unhandled exception"]
       ELSE IF ~verify_password(password, JsonLoads(user_data).password)
       THEN [resp |-> InvalidPasswordResponse,
             log |-> "Login failed - invalid password"]
       ELSE IF JwtEncodeRaises(SECRET_KEY)
       THEN [resp |-> InternalError, log |-> "Unhandled exception"]
       ELSE [resp |-> LoginOk(create_access_token(email, Timedelta(minutes), clk)),
             log |-> "User logged in successfully"]

\* login: one store read, then local work (hash check, clock read, signing)
login(p, email, password) ==
    /\ Accept(p)
    /\ LET out == LoginResult(email, password, redis_client, now,
                              ACCESS_TOKEN_EXPIRE_MINUTES)
           r == [Request("login", "done") EXCEPT
                    !.email = email, !.password = password]
       IN /\ Finish(p, r, out.resp, out.log)
          /\ issued' = IF out.resp.status = 200
                       THEN issued \cup {out.resp.token} ELSE issued
    /\ UNCHANGED <<agentVars, SECRET_KEY,
                   ACCESS_TOKEN_EXPIRE_MINUTES, now, redis_client,
                   loggedOut, revokedAt, registered, regCount>>

\* ---------------------------------------- protected requests: the gate ---
\* mutant: a revoked token is told apart from an invalid or expired one
Authenticate_revoked(p, op, token, agent_type, query) ==
    /\ Accept(p)
    /\ LET r == [Request(op, "auth_jwt") EXCEPT
                    !.token = token, !.agent_type = agent_type, !.query = query]
       IN IF token = NullToken
          THEN Finish(p, r, NotAuthenticated, "")
          ELSE IF IsBlacklisted(redis_client, token, now)
          THEN Finish(p, r, Resp(401, "Token has been revoked"), "")
          ELSE procs' = [procs EXCEPT ![p] = r] /\ UNCHANGED reply
    /\ UNCHANGED <<agentVars, SECRET_KEY,
                   ACCESS_TOKEN_EXPIRE_MINUTES, now, redis_client,
                   issued, loggedOut, revokedAt, registered, regCount>>

\* get_current_user, lines 33-46, for a request of kind op carrying `token`:
\* Depends(security) turns a request without credentials away; the blacklist
\* lookup is the first store round trip of the request
Authenticate(p, op, token, agent_type, query) ==
    /\ Accept(p)
    /\ LET r == [Request(op, "auth_jwt") EXCEPT
                    !.token = token, !.agent_type = agent_type, !.query = query]
       IN IF token = NullToken
          THEN Finish(p, r, NotAuthenticated, "")
          ELSE IF IsBlacklisted(redis_client, token, now)
          THEN Finish(p, r, CredentialsException, "")
          ELSE procs' = [procs EXCEPT ![p] = r] /\ UNCHANGED reply
    /\ UNCHANGED <<agentVars, SECRET_KEY,
                   ACCESS_TOKEN_EXPIRE_MINUTES, now, redis_client,
                   issued, loggedOut, revokedAt, registered, regCount>>

\* where the handler continues once the dependency has returned a user
Body(op) == IF op = "logout" THEN "lo_setex" ELSE "chat_body"

\* get_current_user, lines 48-56: decode at the current instant
auth_decode(p) ==
    /\ procs[p].pc = "auth_jwt"
    /\ LET email == DecodeUser(procs[p].token, now)
       IN IF email = Unauthorized
          THEN Finish(p, procs[p], CredentialsException, "")
          ELSE /\ procs' = [procs EXCEPT ![p].pc = Body(procs[p].op),
                                         ![p].current_user = email]
               /\ UNCHANGED reply
    /\ UNCHANGED <<agentVars, SECRET_KEY,
                   ACCESS_TOKEN_EXPIRE_MINUTES, now, redis_client,
                   served, issued, loggedOut, revokedAt, registered, regCount>>

\* logout, line 78: Depends(get_current_user)
logout(p, token) == Authenticate(p, "logout", token, "", "")

\* mutant: the entry is kept for twice the token lifetime
BlacklistTtl_double(minutes) == 2 * minutes * SecondsPerMinute

\* logout, line 89: the TTL handed to SETEX, in seconds
BlacklistTtl(minutes) == minutes * SecondsPerMinute

\* logout, lines 86-92: blacklist the token, answer 200
logout_setex(p) ==
    /\ procs[p].pc = "lo_setex"
    /\ LET ttl == BlacklistTtl(ACCESS_TOKEN_EXPIRE_MINUTES)
       IN IF SetexRaises(ttl)
          THEN /\ Finish(p, procs[p], InternalError, "Unhandled exception")
               /\ UNCHANGED <<redis_client, loggedOut, revokedAt>>
          ELSE /\ redis_client' = RedisSetex(redis_client,
                                     BlacklistKey(procs[p].token), ttl,
                                     [str |-> "1", json |-> NullUser], now)
               /\ Finish(p, procs[p], LogoutOk, "User logged out successfully")
               /\ loggedOut' = loggedOut \cup {procs[p].token}
               /\ revokedAt' = revokedAt \cup {<<procs[p].token, now>>}
    /\ UNCHANGED <<agentVars, SECRET_KEY,
                   ACCESS_TOKEN_EXPIRE_MINUTES, now, served,
                   issued, registered, regCount>>

\* ------------------------------------------------ app/routes/agents.py ---
\* mutant: the route without its Depends(get_current_user)
chat_open(p, token, agent_type, query) ==
    /\ Accept(p)
    /\ procs' = [procs EXCEPT ![p] = [Request("chat", "chat_body") EXCEPT
                                         !.token = token, !.agent_type = agent_type,
                                         !.query = query]]
    /\ UNCHANGED <<agentVars, SECRET_KEY,
                   ACCESS_TOKEN_EXPIRE_MINUTES, now, redis_client,
                   reply, issued, loggedOut, revokedAt, registered, regCount>>

\* get_agent_response, line 17: Depends(get_current_user)
chat(p, token, agent_type, query) ==
    Authenticate(p, "chat", token, agent_type, query)

\* mutant: the arguments the wrong way round
SseCall_swapped(query, agent_type) == [query |-> agent_type, agent_type |-> query]

\* get_agent_response, line 35: generate_sse_events(query, agent_type), the
\* generator object handed to StreamingResponse
SseCall(query, agent_type) == [query |-> query, agent_type |-> agent_type]

\* get_agent_response, lines 27-42: the agent-type check, then the stream
chat_body(p) ==
    /\ procs[p].pc = "chat_body"
    /\ IF procs[p].agent_type \notin SUPPORTED_AGENTS
       THEN Finish(p, procs[p], InvalidAgent, "Invalid agent type requested")
       ELSE Finish(p, [procs[p] EXCEPT !.generated =
                          Append(@, SseCall(procs[p].query, procs[p].agent_type))],
                   StreamingOk, "Starting SSE stream")
    /\ UNCHANGED <<agentVars, SECRET_KEY,
                   ACCESS_TOKEN_EXPIRE_MINUTES, now, redis_client,
                   served, issued, loggedOut, revokedAt, registered, regCount>>

\* ------------------------------------------------- the store fails ------
\* A Redis call raises (redis.exceptions.ConnectionError, TimeoutError): the
\* command did not take effect, no route catches the exception, and the
\* request ends in global_exception_handler.
Unhandled(p, r) == Finish(p, r, InternalError, "Unhandled exception")

\* the request is turned away by its first Redis call
FailsOnArrival(p, r) ==
    /\ Accept(p)
    /\ Unhandled(p, r)
    /\ UNCHANGED <<agentVars, SECRET_KEY,
                   ACCESS_TOKEN_EXPIRE_MINUTES, now, redis_client,
                   issued, loggedOut, revokedAt, registered, regCount>>

\* the Redis call of the step at `pc` raises
FailsAt(p, pc) ==
    /\ procs[p].pc = pc
    /\ Unhandled(p, procs[p])
    /\ UNCHANGED <<agentVars, SECRET_KEY,
                   ACCESS_TOKEN_EXPIRE_MINUTES, now, redis_client,
                   served, issued, loggedOut, revokedAt, registered, regCount>>

\* register, line 30: redis_client.get raises
register_get_fails(p, email, password) ==
    FailsOnArrival(p, [Request("register", "done") EXCEPT
                          !.email = email, !.password = password,
                          !.hadRecord = UserKey(email) \in DOMAIN redis_client])

\* register, line 38: redis_client.set raises
register_set_fails(p) == FailsAt(p, "reg_set")

\* login, line 49: redis_client.get raises
login_get_fails(p, email, password) ==
    FailsOnArrival(p, [Request("login", "done") EXCEPT
                          !.email = email, !.password = password])

\* get_current_user, line 45: redis_client.get raises, outside the try block
blacklist_get_fails(p, op, token, agent_type, query) ==
    FailsOnArrival(p, [Request(op, "done") EXCEPT
                          !.token = token, !.agent_type = agent_type,
                          !.query = query])

\* logout, line 89: redis_client.setex raises
logout_setex_fails(p) == FailsAt(p, "lo_setex")

\* ------------------------------------------------------ specification ----
Next ==
    \/ Tick
    \/ \E p \in Procs, e \in Emails, pw \in Passwords : register(p, e, pw)
    \/ \E p \in Procs : register_set(p)
    \/ \E p \in Procs, e \in Emails, pw \in Passwords : login(p, e, pw)
    \/ \E p \in Procs, t \in Credentials : logout(p, t)
    \/ \E p \in Procs, t \in Credentials, a \in AgentTypes, q \in Queries :
          chat(p, t, a, q)
    \/ \E p \in Procs : auth_decode(p)
    \/ \E p \in Procs : logout_setex(p)
    \/ \E p \in Procs : chat_body(p)

Spec == Init /\ [][Next]_vars

\* the service over a store whose calls may fail
NextStoreFails ==
    \/ Next
    \/ \E p \in Procs, e \in Emails, pw \in Passwords : register_get_fails(p, e, pw)
    \/ \E p \in Procs : register_set_fails(p)
    \/ \E p \in Procs, e \in Emails, pw \in Passwords : login_get_fails(p, e, pw)
    \/ \E p \in Procs, t \in Presentable :
          blacklist_get_fails(p, "logout", t, "", "")
    \/ \E p \in Procs, t \in Presentable, a \in AgentTypes, q \in Queries :
          blacklist_get_fails(p, "chat", t, a, q)
    \/ \E p \in Procs : logout_setex_fails(p)

SpecStoreFails == Init /\ [][NextStoreFails]_vars

\* The service as config.py lets it start: REDIS_SECRET_KEY set or not (line 4
\* takes what os.getenv returns, and nothing looks at it before a request
\* does).  Without a key no token is ever issued, so the only token string a
\* client can present is a malformed one, which jwt.decode turns down before
\* it uses the key.
InitAnyKey ==
    /\ SECRET_KEY \in {KeyInEnv, None}
    /\ Boot
    /\ EmptyStore \/ AliceStored

SpecAnyKey == InitAnyKey /\ [][Next]_vars

\* A record whose password field is not a bcrypt hash (the store is shared and
\* outlives the service; such a record was written by something else).
MalformedHash == [scheme |-> "plain", salt |-> 0, digest |-> <<0, "pw2">>]

ForeignRecordStored ==
    /\ redis_client = RedisSet(<< >>, UserKey("bob"),
                               JsonDumps([email |-> "bob", password |-> MalformedHash]))
    /\ registered = {}
    /\ regCount = [e \in Emails |-> 0]

InitAnyStore ==
    /\ SECRET_KEY = KeyInEnv
    /\ Boot
    /\ EmptyStore \/ AliceStored \/ ForeignRecordStored

SpecAnyStore == InitAnyStore /\ [][Next]_vars

\* register and login with passwords of any length: hash_password and
\* verify_password take any string
AnyPasswords == Passwords \cup LongPasswords

NextAnyPassword ==
    \/ Tick
    \/ \E p \in Procs, e \in Emails, pw \in AnyPasswords : register(p, e, pw)
    \/ \E p \in Procs : register_set(p)
    \/ \E p \in Procs, e \in Emails, pw \in AnyPasswords : login(p, e, pw)

SpecAnyPassword == Init /\ [][NextAnyPassword]_vars

\* generate_sse_events alone, over every agent type and every stream of chunks
NextSse ==
    \/ \E q \in Queries, a \in AgentTypes, c \in ChunkStreams :
          generate_sse_events(q, a, c)
    \/ sse_yield
    \/ sse_done

SpecSse == Init /\ [][NextSse]_vars

\* get_weather_by_city alone, over every key, day and date argument
NextWeather ==
    \/ \E k \in WeatherKeys, t \in Todays, d \in DateArgs : get_weather_by_city(k, t, d)
    \/ \E o \in HttpOutcomes : weather_response(o)

SpecWeather == Init /\ [][NextWeather]_vars

\* Tokens signed with the service's key whose payload has an empty "sub" or
\* none: login never issues one (it signs the email of a stored user), whoever
\* else holds the key can.  They do not expire within a run.
SubjectlessTokens == {[sub |-> s, exp |-> MaxTick + DefaultExpireMinutes, sig |-> KeyInEnv] :
                         s \in {"", None}}

\* login and the protected routes, presented with such tokens as well
NextAnyToken ==
    \/ Tick
    \/ \E p \in Procs, e \in Emails, pw \in Passwords : login(p, e, pw)
    \/ \E p \in Procs, t \in Credentials \cup SubjectlessTokens : logout(p, t)
    \/ \E p \in Procs, t \in Credentials \cup SubjectlessTokens,
          a \in AgentTypes, q \in Queries : chat(p, t, a, q)
    \/ \E p \in Procs : auth_decode(p)
    \/ \E p \in Procs : logout_setex(p)
    \/ \E p \in Procs : chat_body(p)

SpecAnyToken == Init /\ [][NextAnyToken]_vars

\* ------------------------------------------------- the claims' vocabulary -
\* the instant, in ticks, that a token's encoded expiry names
ExpiryInstant(token) == token.exp * TicksPerSecond
SignatureValid(token) == token.sig = SECRET_KEY
ExpiryInFuture(token, clk) == ExpiryInstant(token) > clk
RevocationEntryExists(token) == BlacklistKey(token) \in DOMAIN redis_client
BlacklistKeys == {k \in DOMAIN redis_client : k.ns = "blacklist"}
HasRecord(email) == UserKey(email) \in DOMAIN redis_client
StoredHash(email) == JsonLoads(redis_client[UserKey(email)].value).password
\* the hash is one that hashing `password` produces
HashOf(password, h) == \E salt \in Salts : h = hash_password(password, salt)

\* C1: in every reachable state and for every presentable token string t,
\* authenticate(t) returns a subject exactly when t's signature is valid under
\* the signing key, t's encoded expiry is in the future, and the store holds
\* no revocation entry for t.
C1_AuthenticatedIffValid ==
    \A t \in Presentable :
        (get_current_user(t, redis_client, now) # Unauthorized)
            <=> (/\ SignatureValid(t)
                 /\ ExpiryInFuture(t, now)
                 /\ ~RevocationEntryExists(t))

\* C2: once a logout with token t has returned 200, authenticate(t) rejects
\* in every later state.
C2_RevokedStaysRejected ==
    \A t \in loggedOut : get_current_user(t, redis_client, now) = Unauthorized

\* C3: a revocation entry's time-to-live is at least the token's remaining
\* lifetime when it is written (the entry's expiry instant is not before the
\* token's encoded expiry), and so the entry of a revoked token is in the store
\* for as long as the token's encoded expiry has not passed.
C3_TtlCoversLifetime ==
    /\ \A k \in BlacklistKeys :
          redis_client[k].expireAt >= ExpiryInstant(k.token)
    /\ \A t \in loggedOut :
          now <= ExpiryInstant(t) => RevocationEntryExists(t)

\* C3's case: a revoked token whose expiry has not passed, some time after
\* its revocation entry was written.
C3_Witness ==
    \E t \in loggedOut :
        /\ RevocationEntryExists(t)
        /\ now <= ExpiryInstant(t)
        /\ now > 0
        /\ redis_client[BlacklistKey(t)].expireAt > ExpiryInstant(t)

\* C4: per email at most one register request ever returns 201, however the
\* store reads and writes of concurrent requests interleave.
C4_OneRegistrationPerEmail == \A e \in Emails : regCount[e] <= 1

\* C5: a revocation entry's time-to-live equals the token's remaining lifetime
\* when it is written, so the entry expires at the token's encoded expiry and
\* no entry is in the store after that instant.
C5_TtlEqualsRemainingLifetime ==
    \A k \in BlacklistKeys :
        /\ redis_client[k].expireAt = ExpiryInstant(k.token)
        /\ now <= ExpiryInstant(k.token)

\* C6: once the store holds a user record, no step changes or removes it.
C6_UserRecordImmutable ==
    [][\A e \in Emails :
          HasRecord(e) =>
              /\ UserKey(e) \in DOMAIN redis_client'
              /\ redis_client'[UserKey(e)] = redis_client[UserKey(e)]]_vars

\* C7: a register request for an email whose record is in the store when the
\* request arrives is answered 400 "Email already registered", never comes to
\* its SET, and the step that answers it leaves the store as it was.
C7_DuplicateRegisterRejected ==
    [][/\ \A p \in Procs : procs'[p].pc = "reg_set" => ~procs'[p].hadRecord
       /\ (served' # served /\ reply'.op = "register" /\ reply'.hadRecord)
             => (reply'.resp = Resp(400, "Email already registered")
                 /\ redis_client' = redis_client)]_vars

\* C7's case: a duplicate registration has just been rejected.
C7_Witness ==
    /\ reply.op = "register"
    /\ reply.hadRecord
    /\ reply.resp.status = 400
    /\ HasRecord(reply.email)

\* C8: a login with an email and password for which a register request has
\* returned 201 is answered 200 with a token whose subject is that email.
C8_RegisterThenLogin ==
    (reply.op = "login" /\ <<reply.email, reply.password>> \in registered)
        => (reply.resp.status = 200 /\ reply.resp.token.sub = reply.email)

\* C9: every failed login, whether the email is unknown or the password is
\* wrong, gets one and the same response: 401 "Invalid email or password".
C9_LoginFailuresAlike ==
    /\ \A e1 \in Emails, e2 \in Emails, p1 \in Passwords, p2 \in Passwords :
          LET a == LoginResult(e1, p1, redis_client, now, ACCESS_TOKEN_EXPIRE_MINUTES)
              b == LoginResult(e2, p2, redis_client, now, ACCESS_TOKEN_EXPIRE_MINUTES)
          IN (a.resp.status # 200 /\ b.resp.status # 200) => a.resp = b.resp
    /\ (reply.op = "login" /\ reply.resp.status # 200)
          => reply.resp = Resp(401, "Invalid email or password")

\* C9's case: a login has just failed on a wrong password while another email
\* is unknown to the store.
C9_Witness ==
    /\ reply.op = "login"
    /\ reply.log = "Login failed - invalid password"
    /\ reply.resp.status = 401
    /\ \E e \in Emails : ~HasRecord(e)

\* C10: a login response carries a token exactly when the store holds a record
\* for the email and the password is the one its hash was made from; the token
\* then has the email as subject and type "bearer"; a failed login carries no
\* token, and every token ever issued names a registered email.
C10_TokenOnlyOnVerifiedLogin ==
    /\ reply.op = "login" =>
          LET verified == /\ HasRecord(reply.email)
                          /\ HashOf(reply.password, StoredHash(reply.email))
          IN /\ (reply.resp.token # NullToken) <=> verified
             /\ verified => /\ reply.resp.status = 200
                            /\ reply.resp.token.sub = reply.email
                            /\ reply.resp.token_type = "bearer"
                            /\ reply.resp.token \in issued
             /\ ~verified => /\ reply.resp.status = 401
                             /\ reply.resp.token_type = ""
    /\ \A t \in issued : \E pw \in Passwords : <<t.sub, pw>> \in registered

\* C10's case: a login has just succeeded.
C10_Witness ==
    /\ reply.op = "login"
    /\ reply.resp.status = 200
    /\ reply.resp.token \in issued

\* C11: for every subject s and lifetime L > 0, a token issued with (s, L) at
\* an instant c authenticates at c, yielding s, and every authenticate made
\* once the clock has passed c + L rejects it, no revocation being involved.
C11_ExpiresAfterLifetime ==
    \A s \in Emails, L \in 1..MaxMinutes, c \in 0..now :
        LET t == create_access_token(s, Timedelta(L), c)
        IN /\ DecodeUser(t, c) = s
           /\ (now > c + Timedelta(L) * TicksPerSecond /\ ~RevocationEntryExists(t))
                 => get_current_user(t, redis_client, now) = Unauthorized


\* a request of worker p takes the step from pc `from` to pc `to`
Moves(p, from, to) == procs[p].pc = from /\ procs'[p].pc = to

Rejected(r) == r.op \in {"logout", "chat"} /\ r.token # NullToken /\ r.current_user = ""
\* jwt.decode's notion of expired
JwtExpired(token, clk) == token.exp < NowSeconds(clk)

\* C13: whatever made authenticate reject a presented token - a revocation
\* entry, a bad signature or garbage, an expiry that has passed - the response
\* is the same: 401 "Invalid or expired token".
C13_RejectionsAlike ==
    Rejected(reply) => reply.resp = Resp(401, "Invalid or expired token")

\* C13's case: a validly signed, unexpired token has just been rejected for
\* its revocation entry, in a state where a garbage token is rejected too.
C13_Witness ==
    /\ Rejected(reply)
    /\ reply.token \in loggedOut
    /\ RevocationEntryExists(reply.token)
    /\ ~JwtExpired(reply.token, now)
    /\ reply.resp.status = 401
    /\ get_current_user(GarbageToken, redis_client, now) = Unauthorized


\* C14: revoking a token twice, one request after the other or both at once,
\* leaves the store as one revocation did: the one entry blacklist:<token>
\* that the first revocation wrote stays as it is, with the expiry the first
\* revocation gave it, for as long as it is in the store.
C14_RevocationIdempotent ==
    [][\A k \in BlacklistKeys :
          k \in DOMAIN redis_client' => redis_client'[k] = redis_client[k]]_vars


\* C15: a logout whose token fails authentication is answered 401 and writes
\* nothing, and every blacklist:<token> key is written by the request that
\* presented that token, after authenticate has returned the token's subject
\* to that same request; so every blacklisted token is one that login issued.
C15_RevokeOnlyAfterAuthentication ==
    [][/\ \A k \in {x \in DOMAIN redis_client' : x.ns = "blacklist"} :
             (k \notin DOMAIN redis_client \/ redis_client'[k] # redis_client[k])
                => \E p \in Procs :
                      /\ Moves(p, "lo_setex", "done")
                      /\ procs[p].op = "logout"
                      /\ procs[p].token = k.token
                      /\ procs[p].current_user = k.token.sub
                      /\ procs[p].current_user \in Emails
                      /\ SignatureValid(k.token)
                      /\ k.token \in issued
       /\ \A p \in Procs :
             (procs'[p].pc = "lo_setex" /\ procs[p].pc # "lo_setex")
                => /\ Moves(p, "auth_jwt", "lo_setex")
                   /\ DecodeUser(procs[p].token, now) = procs'[p].current_user
                   /\ procs'[p].current_user # Unauthorized
       /\ (procs' # procs \/ served' # served) /\ reply'.op = "logout"
          /\ reply'.resp.status = 401
             => redis_client' = redis_client]_vars

\* C15's case: a logout with a garbage token has just been answered 401 while
\* the store holds the revocation entry of a token that was authenticated.
C15_Witness ==
    /\ reply.op = "logout"
    /\ reply.token = GarbageToken
    /\ reply.resp.status = 401
    /\ \E t \in issued : RevocationEntryExists(t)
    /\ ~RevocationEntryExists(GarbageToken)


\* C16: for a correctly signed token, rejection is final: once authenticate
\* rejects it (its expiry has passed, or it has been revoked), authenticate
\* rejects it in every later state, also after the store has purged its
\* revocation entry.
C16_RejectionIsFinal ==
    [][\A t \in issued :
          get_current_user(t, redis_client, now) = Unauthorized
             => get_current_user(t, redis_client', now') = Unauthorized]_vars


\* the lifetime login gives a token, in ticks
TokenLifetime == EffectiveDelta(Timedelta(ACCESS_TOKEN_EXPIRE_MINUTES)) * TicksPerSecond
\* the tokens revoked within the last w ticks
RevokedWithin(w) == {r[1] : r \in {x \in revokedAt : now - x[2] <= w}}
LiveRevocationEntries == {k \in BlacklistKeys : Live(redis_client[k], now)}

\* C17: every revocation entry carries an expiry the store enforces, and the
\* live revocation entries are never more than the tokens revoked within the
\* last token lifetime, however many tokens were issued or revoked before.
C17_RevocationEntriesBounded ==
    /\ \A k \in BlacklistKeys : redis_client[k].expireAt # NoExpiry
    /\ \A k \in LiveRevocationEntries : k.token \in RevokedWithin(TokenLifetime)
    /\ Cardinality(LiveRevocationEntries) <= Cardinality(RevokedWithin(TokenLifetime))

\* C17's case: a token was revoked more than a lifetime ago and its entry is
\* gone, so it no longer counts, while tokens have been issued.
C17_Witness ==
    /\ \E t \in loggedOut : t \notin RevokedWithin(TokenLifetime)
    /\ LiveRevocationEntries = {}
    /\ issued # {}


\* the step answers a request
Answers == procs' # procs \/ served' # served
\* the request `reply` answers ended in global_exception_handler
EndedUnhandled(r) == r.log = "Unhandled exception"

\* C18: a request in which a store call fails is answered 500 "Internal
\* server error": not a success, not a 400 or 401, with no token and no
\* subject handed out, and the step that answers it leaves the store as it was.
C18_StoreFailureIsServerError ==
    [][(Answers /\ EndedUnhandled(reply'))
          => /\ reply'.resp = Resp(500, "Internal server error")
             /\ reply'.resp.token = NullToken
             /\ redis_client' = redis_client
             /\ issued' = issued]_vars


\* C19: a service whose signing key is missing from the configuration does
\* not come to serve requests: it accepts none and answers none.
C19_MissingKeyStopsStartup ==
    SECRET_KEY = None => (served = 0 /\ reply = NoReply /\ \A p \in Procs : Free(p))

\* C20: a login for a user whose stored password hash is malformed is a failed
\* verification: it is answered 401 "Invalid email or password", as
\* verify(plaintext, hash_string) is false for every such hash_string.
C20_MalformedHashFailsVerification ==
    (/\ reply.op = "login"
     /\ HasRecord(reply.email)
     /\ StoredHash(reply.email).scheme # "bcrypt")
        => reply.resp = Resp(401, "Invalid email or password")


\* C21: the password field of every user record is a hash, never the password
\* itself; the stored hash(p2) verifies p2, and verifies no p1 # p2; so a login
\* is answered 200 only for a password that was registered for the email.
C21_HashVerifyRoundTrip ==
    /\ \A e \in Emails :
          HasRecord(e) =>
             /\ StoredHash(e).scheme = "bcrypt"
             /\ StoredHash(e).salt \in Salts
             /\ \A p1 \in AnyPasswords :
                   verify_password(p1, StoredHash(e)) => <<e, p1>> \in registered
             /\ \A p2 \in AnyPasswords :
                   (regCount[e] = 1 /\ <<e, p2>> \in registered)
                      => verify_password(p2, StoredHash(e))
    /\ (reply.op = "login" /\ reply.resp.status = 200)
          => <<reply.email, reply.password>> \in registered


\* the step takes a request in and answers it at once
AnswersOnArrival == served' # served /\ procs' = procs

\* C22: every token login issues expires at its issuance time plus the
\* configured ACCESS_TOKEN_EXPIRE_MINUTES (in the whole seconds a token
\* carries), whatever the request holds, and carries an expiry.
C22_LifetimeIsConfigured ==
    [][(AnswersOnArrival /\ reply'.op = "login" /\ reply'.resp.status = 200)
          => /\ reply'.resp.token \in issued'
             /\ reply'.resp.token.exp =
                   NowSeconds(now) + Timedelta(ACCESS_TOKEN_EXPIRE_MINUTES)]_vars


Authenticates(t) == get_current_user(t, redis_client, now) # Unauthorized
AuthenticatesNext(t) == get_current_user(t, redis_client', now') # Unauthorized
LoginSucceeds == AnswersOnArrival /\ reply'.op = "login" /\ reply'.resp.status = 200

\* C23: tokens of different logins are independent.  A login leaves every
\* token issued before as it was; a logout takes away no token but the one it
\* was made with; and the token a login returns is valid from its issuance,
\* whatever was done with the tokens of other logins.
C23_LoginsIndependent ==
    [][/\ LoginSucceeds
             => /\ \A t \in issued : Authenticates(t) => AuthenticatesNext(t)
                /\ AuthenticatesNext(reply'.resp.token)
       /\ \A p \in Procs :
             Moves(p, "lo_setex", "done")
                => \A t \in issued \ {procs[p].token} :
                      Authenticates(t) => AuthenticatesNext(t)]_vars


\* C25: an authenticated chat request with an agent type outside
\* SUPPORTED_AGENTS is answered 400 "Invalid agent type" and makes no call of
\* the SSE generator; one with a supported agent type makes exactly one call,
\* generate_sse_events(query, agent_type), with its own query and agent type; a
\* chat request that is not authenticated gets the authentication rejection
\* whatever its agent type, and no request but a chat request calls the
\* generator.
C25_AgentTypeChecked ==
    /\ \A p \in Procs : procs[p].generated = << >>
    /\ reply.op # "chat" => reply.generated = << >>
    /\ reply.op = "chat" =>
          IF reply.current_user = ""
          THEN /\ reply.resp \in {Resp(401, "Invalid or expired token"),
                                  Resp(403, "Not authenticated")}
               /\ reply.generated = << >>
          ELSE IF reply.agent_type \notin SUPPORTED_AGENTS
          THEN /\ reply.resp = Resp(400, "Invalid agent type")
               /\ reply.generated = << >>
          ELSE /\ reply.resp.status = 200
               /\ reply.generated =
                     <<[query |-> reply.query, agent_type |-> reply.agent_type]>>

\* C25's case: an authenticated chat request with an unsupported agent type
\* has just been answered.
C25_Witness ==
    /\ reply.op = "chat"
    /\ reply.current_user \in Emails
    /\ reply.agent_type \notin SUPPORTED_AGENTS
    /\ reply.resp.status = 400
    /\ reply.query \in Queries


\* the events the i-th to last chunks of a stream are due
EventsOf(chunks) ==
    [k \in 1..Len(chunks) |->
        [field |-> "data", event |-> chunks[k].event, data |-> chunks[k].data,
         end |-> "\n\n"]]

\* how many of the events yielded so far are done events
DoneEvents == Cardinality({k \in 1..Len(sse.out) : sse.out[k].event = "done"})

\* C24: for every finite sequence of chunks the agent produces,
\* generate_sse_events yields one 'data: {event, data}' event per chunk, in the
\* chunks' order, and then exactly one event with event 'done' and data '',
\* which is the last event of the stream; for an agent type other than
\* "ollama" the stream is the done event alone.  While the generator runs, what
\* it has yielded is a prefix of that stream without the done event.
C24_StreamShape ==
    LET due == IF sse.agent_type = "ollama" THEN EventsOf(sse.chunks) ELSE << >>
        done == [field |-> "data", event |-> "done", data |-> "", end |-> "\n\n"]
    IN /\ sse.pc = "closed" =>
             /\ sse.out = due \o <<done>>
             /\ DoneEvents = 1
             /\ sse.out[Len(sse.out)] = done
       /\ sse.pc \in {"loop", "done"} =>
             /\ Len(sse.out) <= Len(due)
             /\ sse.out = SubSeq(due, 1, Len(sse.out))
             /\ DoneEvents = 0

\* C24's case: the stream of an agent that produced several chunks has ended
C24_Witness ==
    /\ sse.pc = "closed"
    /\ sse.agent_type = "ollama"
    /\ Len(sse.chunks) = MaxChunks
    /\ sse.chunks[1].data # sse.chunks[2].data
    /\ Len(sse.out) = MaxChunks + 1


\* the date argument is a string of the form YYYY-MM-DD
IsYmd(date) == date.form = "YYYY-MM-DD"

\* the tool returned an error string without a request
ErrorWithoutRequest == weather.calls = << >> /\ weather.result \in WeatherErrors

\* the tool requested exactly this endpoint
Requested(endpoint) == weather.calls = <<endpoint>>

C27_SuppliedDeltaIsUsed ==
    [][LoginSucceeds =>
          LET token == reply'.resp.token
              expires_delta == Timedelta(ACCESS_TOKEN_EXPIRE_MINUTES)
          IN /\ token = create_access_token(reply'.email, expires_delta, now)
             /\ token.exp = NowSeconds(now + expires_delta * TicksPerSecond)
             /\ token.exp - NowSeconds(now) =
                   BlacklistTtl(ACCESS_TOKEN_EXPIRE_MINUTES)]_vars


\* C28: revoking an already-expired token is a no-op: no logout ever writes a
\* revocation entry for a token whose expiry has passed at the moment of the
\* write, not even when the token expires between the request's
\* authentication and its write.  Expired is taken as jwt.decode takes it (the
\* whole second of the expiry is over), the most lenient reading.
C28_NoEntryForExpiredToken ==
    [][\A p \in Procs :
          (Moves(p, "lo_setex", "done") /\ revokedAt' # revokedAt)
             => ~JwtExpired(procs[p].token, now)]_vars


\* the keys a step writes (creates, or gives another entry) and removes
Written == {k \in DOMAIN redis_client' :
               k \notin DOMAIN redis_client \/ redis_client'[k] # redis_client[k]}
Deleted == DOMAIN redis_client \ DOMAIN redis_client'
\* a step of a handler: every step but the passing of time
HandlerStep == now' = now

\* C29: store frame conditions.  The steps of authenticate (the blacklist
\* lookup, the decoding) and of login write nothing, whether they succeed or
\* fail; a register request writes at most the key user:<email> of its own
\* email; a logout request writes at most the key blacklist:<token> of its own
\* token; none of them removes a key, a logout never writes a user: key and a
\* register never a blacklist: key.
C29_StoreFrame ==
    [][HandlerStep =>
          /\ Deleted = {}
          /\ \A p \in Procs :
                /\ Moves(p, "reg_set", "done") =>
                      \A k \in Written : k.ns = "user" /\ k.email = procs[p].email
                /\ Moves(p, "lo_setex", "done") =>
                      \A k \in Written : k.ns = "blacklist" /\ k.token = procs[p].token
                /\ procs[p].pc \in {"auth_jwt", "chat_body"} /\ procs'[p] # procs[p]
                      => Written = {}
          /\ served' # served => Written = {}
          /\ Cardinality(Written) <= 1]_vars

\* C29's case: a register, a login and a logout have each acted; the store
\* holds the user key of the one and the blacklist key of the other.
C29_Witness ==
    /\ reply.op = "logout"
    /\ reply.resp.status = 200
    /\ reply.token \in issued
    /\ regCount[reply.token.sub] = 1
    /\ \E k \in DOMAIN redis_client : k.ns = "blacklist" /\ k.token = reply.token
    /\ \E k \in DOMAIN redis_client : k.ns = "user" /\ k.email = reply.token.sub


\* an identity a protected operation can work with
IsIdentity(user) == user \notin {"", None}

\* C30: a correctly signed, unexpired, non-revoked token whose payload has no
\* subject or an empty one is rejected by authenticate with 401, so no
\* protected operation (the logout body, the chat body) ever runs with an empty
\* or absent identity.
C30_NoEmptyIdentity ==
    /\ \A t \in SubjectlessTokens :
          get_current_user(t, redis_client, now) = "<401>"
    /\ \A p \in Procs :
          procs[p].pc \in {"lo_setex", "chat_body"} => IsIdentity(procs[p].current_user)
    /\ (reply.op \in {"logout", "chat"} /\ reply.token \in SubjectlessTokens)
          => reply.resp = Resp(401, "Invalid or expired token")
    /\ (reply.op \in {"logout", "chat"} /\ reply.resp.status \in {200, 400})
          => IsIdentity(reply.current_user)

\* C30's case: a signed, unexpired, unrevoked token without a subject has just
\* been turned down.
C30_Witness ==
    /\ reply.op \in {"logout", "chat"}
    /\ reply.token \in SubjectlessTokens
    /\ reply.token.sub = None
    /\ SignatureValid(reply.token)
    /\ ~JwtExpired(reply.token, now)
    /\ ~RevocationEntryExists(reply.token)
    /\ reply.resp.status = 401

=============================================================================
